---- MODULE Spec2Model ----
(***************************************************************************)
(* hcipy/plotting/__init__.py: the package initializer of hcipy.plotting.  *)
(*                                                                         *)
(* The module body is ten statements: lines 1-5 build the list __all__,    *)
(* lines 7-11 star-import the five sibling modules.  The model executes    *)
(* the body one statement per step, under Python's import semantics:       *)
(*   - the package is entered in sys.modules before its body runs and is   *)
(*     removed from it again when the body raises;                         *)
(*   - "from .m import *" runs the body of m the first time m is imported, *)
(*     binds the submodule as attribute m of the package, and then copies  *)
(*     the names m exports: those of m.__all__ when m has one (raising     *)
(*     AttributeError at the first one m does not define), otherwise every *)
(*     name of m that does not start with an underscore;                   *)
(*   - __all__ of the package is a plain list: nothing consults it until   *)
(*     a caller star-imports the package.                                  *)
(* The contents of the five sibling modules are the inputs of the body;    *)
(* they are drawn from a menu of module shapes in Init.                    *)
(***************************************************************************)
EXTENDS Naturals, Sequences, FiniteSets, TLC

VARIABLES
    sib,         \* input: the namespace of each sibling module (see Contents)
    pc,          \* next statement of the package body: "L1".."L11", "done", "failed"
    allList,     \* the package's __all__ (<<>> while the name is still unbound)
    ns,          \* the package namespace: bound name -> object (without __all__)
    loaded,      \* sys.modules: which sibling modules have been executed
    registered,  \* sys.modules: whether it holds the package
    faulted,     \* a star-import of the current execution raised
    importLog,   \* star-imports executed so far in the current execution
    partialView, \* what the body of each sibling saw of the package when it ran
    runs,        \* how many times the body has been re-executed
    edits,       \* caller mutations of the current __all__ list
    builtList,   \* __all__ as it stood when initialization first completed
    firstNs,     \* the namespace as it stood when initialization first completed
    lastUse      \* the outcome of the caller's latest use of the package

vars == <<sib, pc, allList, ns, loaded, registered, faulted, importLog,
          partialView, runs, edits, builtList, firstNs, lastUse>>

\* Bounds of the model.
MaxReloads == 1
MaxEdits == 1

(***************************************************************************)
(* Names and modules                                                       *)
(***************************************************************************)

\* The five siblings, in the order of lines 7-11.
ModSeq == <<"animation", "color_scheme", "density", "error_bars", "field">>

Modules == {ModSeq[i] : i \in 1..Len(ModSeq)}

\* Position of module m in the import order.
ModIndex(m) == CHOOSE i \in 1..Len(ModSeq) : ModSeq[i] = m

\* The names each of lines 1-5 contributes to __all__; line k of the list
\* names the exports of the module imported by line k+6.
Own(m) ==
    CASE m = "animation"    -> <<"GifWriter", "FFMpegWriter">>
      [] m = "color_scheme" -> <<"set_color_scheme">>
      [] m = "density"      -> <<"plot_kde_density_1d", "plot_kde_density_2d",
                                 "plot_rug", "plot_density_scatter">>
      [] m = "error_bars"   -> <<"errorfill">>
      [] m = "field"        -> <<"imshow_field", "contour_field", "contourf_field">>

Range(s) == {s[i] : i \in 1..Len(s)}

\* The names declared by lines 1-5.
Declared == UNION {Range(Own(m)) : m \in Modules}

\* The sibling whose line of __all__ declares n.
Owner(n) == CHOOSE m \in Modules : n \in Range(Own(m))

\* Names a sibling may define besides its own: a public helper (such as an
\* imported library) and a private one.
PublicExtra == "np"
PrivateExtra == "_helper"

\* name[0] != '_': the test a star-import applies when the module has no __all__.
IsPublic(n) == n # PrivateExtra

\* All but the last element of a sequence.
Front(s) == SubSeq(s, 1, Len(s) - 1)

\* The first name declared for the module imported just before m (cyclically).
Borrowed(m) ==
    LET i == ModIndex(m)
        j == IF i = 1 THEN Len(ModSeq) ELSE i - 1
    IN  Own(ModSeq[j])[1]

(***************************************************************************)
(* The sibling modules (inputs)                                            *)
(***************************************************************************)

Shapes == {"nominal", "stub", "badall", "wide", "withall"}

\* The namespace of sibling m, by shape: defs are the names its body defines,
\* in order; all is its __all__ when hasAll.
\*   nominal: defines the names declared for it, no __all__
\*   stub:    lacks the last name declared for it, no __all__
\*   badall:  lacks the last name declared for it, and its __all__ lists it
\*   wide:    also defines np, _helper and a name declared for another sibling
\*   withall: defines np and _helper too, its __all__ lists its declared names
Contents(m, shape) ==
    CASE shape = "nominal" -> [defs |-> Own(m), hasAll |-> FALSE, all |-> <<>>]
      [] shape = "stub"    -> [defs |-> Front(Own(m)), hasAll |-> FALSE, all |-> <<>>]
      [] shape = "badall"  -> [defs |-> Front(Own(m)), hasAll |-> TRUE, all |-> Own(m)]
      [] shape = "wide"    -> [defs |-> Own(m) \o <<PublicExtra, PrivateExtra, Borrowed(m)>>,
                               hasAll |-> FALSE, all |-> <<>>]
      [] shape = "withall" -> [defs |-> Own(m) \o <<PublicExtra, PrivateExtra>>,
                               hasAll |-> TRUE, all |-> Own(m)]

Mod(m) == sib[m]

\* The object bound to name n in sibling m.
Obj(m, n) == <<m, n>>

\* The module object of sibling m.
ModuleObj(m) == <<m, "module">>

(***************************************************************************)
(* Statements of the package body                                          *)
(***************************************************************************)

\* __all__ = names                                               (line 1)
Assign(line, names, next) ==
    /\ pc = line
    /\ allList' = names
    /\ edits' = 0
    /\ pc' = next
    /\ UNCHANGED <<sib, ns, loaded, registered, faulted, importLog, partialView,
                   runs, builtList, firstNs, lastUse>>

\* __all__ += names                                              (lines 2-5)
AugAssign(line, names, next) ==
    /\ pc = line
    /\ allList' = allList \o names
    /\ pc' = next
    /\ UNCHANGED <<sib, ns, loaded, registered, faulted, importLog, partialView,
                   runs, edits, builtList, firstNs, lastUse>>

\* The names "from .m import *" copies, in order: m.__all__ when m has one,
\* otherwise the names of m that do not start with an underscore.
\* (StarNamesIgnoreAll: the module's __all__ is not consulted.)
StarNamesIgnoreAll(m) == SelectSeq(Mod(m).defs, IsPublic)

StarNames(m) ==
    IF Mod(m).hasAll THEN Mod(m).all ELSE SelectSeq(Mod(m).defs, IsPublic)

\* The value a star-import binds under n: the object m holds, by reference.
\* (StarBindCopy: a fresh wrapper made by the package.)
StarBindCopy(m, n) == <<"hcipy.plotting", n>>

StarBind(m, n) == Obj(m, n)

\* Binding names in a namespace replaces what was bound under them.
\* (BindKeepFirst: a name already bound keeps its binding.)
BindKeepFirst(space, new) == space @@ new

Bind(space, new) == new @@ space

\* Copy the exports of m into space one by one; stop with AttributeError at
\* the first exported name m does not define.
\* (StarCopyLenient: names m does not define are skipped without a fault.)
StarCopyLenient(m, space) ==
    LET names == StarNames(m)
        defined == Range(Mod(m).defs)
        copied == {names[i] : i \in {j \in 1..Len(names) : names[j] \in defined}}
    IN  [ns    |-> Bind(space, [n \in copied |-> StarBind(m, n)]),
         fault |-> FALSE]

StarCopy(m, space) ==
    LET names == StarNames(m)
        defined == Range(Mod(m).defs)
        bad == {i \in 1..Len(names) : names[i] \notin defined}
        stop == IF bad = {} THEN Len(names) + 1
                ELSE CHOOSE i \in bad : \A j \in bad : i <= j
        copied == {names[i] : i \in 1..(stop - 1)}
    IN  [ns    |-> Bind(space, [n \in copied |-> StarBind(m, n)]),
         fault |-> bad # {}]

\* What the body of a sibling sees when it refers back to the package
\* (sys.modules['hcipy.plotting']) while it is being imported.
View == [seen |-> TRUE, declared |-> allList, bound |-> DOMAIN ns]

NoView == [seen |-> FALSE, declared |-> <<>>, bound |-> {}]

\* Whether initialization has completed before.
Completed == builtList # <<>>

\* from .m import *                                              (lines 7-11)
\* (ImportStarSwallow: the statement wrapped in try/except: pass.)
ImportStarSwallow(line, m, next) ==
    /\ pc = line
    /\ LET first == ~loaded[m]
           space == IF first THEN Bind(ns, m :> ModuleObj(m)) ELSE ns
           res == StarCopy(m, space)
       IN  /\ ns' = res.ns
           /\ partialView' = IF first THEN [partialView EXCEPT ![m] = View]
                             ELSE partialView
           /\ faulted' = (faulted \/ res.fault)
           /\ builtList' = IF next = "done" /\ ~Completed THEN allList ELSE builtList
           /\ firstNs' = IF next = "done" /\ ~Completed THEN res.ns ELSE firstNs
    /\ loaded' = [loaded EXCEPT ![m] = TRUE]
    /\ importLog' = Append(importLog, m)
    /\ pc' = next
    /\ UNCHANGED <<sib, allList, registered, runs, edits, lastUse>>

ImportStar(line, m, next) ==
    /\ pc = line
    /\ LET first == ~loaded[m]
           space == IF first THEN Bind(ns, m :> ModuleObj(m)) ELSE ns
           res == StarCopy(m, space)
       IN  /\ ns' = res.ns
           /\ partialView' = IF first THEN [partialView EXCEPT ![m] = View]
                             ELSE partialView
           /\ IF res.fault
              THEN /\ pc' = "failed"
                   /\ registered' = FALSE
                   /\ faulted' = TRUE
                   /\ UNCHANGED <<builtList, firstNs>>
              ELSE /\ pc' = next
                   /\ builtList' = IF next = "done" /\ ~Completed THEN allList
                                   ELSE builtList
                   /\ firstNs' = IF next = "done" /\ ~Completed THEN res.ns
                                 ELSE firstNs
                   /\ UNCHANGED <<registered, faulted>>
    /\ loaded' = [loaded EXCEPT ![m] = TRUE]
    /\ importLog' = Append(importLog, m)
    /\ UNCHANGED <<sib, allList, runs, edits, lastUse>>

\* A statement that does nothing: a line of the body left out.
Pass(line, next) ==
    /\ pc = line
    /\ pc' = next
    /\ UNCHANGED <<sib, allList, ns, loaded, registered, faulted, importLog,
                   partialView, runs, edits, builtList, firstNs, lastUse>>

(***************************************************************************)
(* The package body, line by line                                          *)
(***************************************************************************)

\* (L1Append: line 1 written with += like the lines after it.)
L1Append == AugAssign("L1", <<"GifWriter", "FFMpegWriter">>, "L2")

L1 == Assign("L1", <<"GifWriter", "FFMpegWriter">>, "L2")

\* (L2Assign: line 2 written with = instead of +=.)
L2Assign == Assign("L2", <<"set_color_scheme">>, "L3")

L2 == AugAssign("L2", <<"set_color_scheme">>, "L3")

L3 == AugAssign("L3", <<"plot_kde_density_1d", "plot_kde_density_2d", "plot_rug",
                        "plot_density_scatter">>, "L4")

L4 == AugAssign("L4", <<"errorfill">>, "L5")

L5 == AugAssign("L5", <<"imshow_field", "contour_field", "contourf_field">>, "L7")

L7 == ImportStar("L7", "animation", "L8")

L8 == ImportStar("L8", "color_scheme", "L9")

L9 == ImportStar("L9", "density", "L10")

\* (L10Pass: line 10 left out.)
L10Pass == Pass("L10", "L11")

L10 == ImportStar("L10", "error_bars", "L11")

\* (L11Pass: line 11 left out.)
L11Pass == Pass("L11", "done")

L11 == ImportStar("L11", "field", "done")

(***************************************************************************)
(* Callers of the package                                                  *)
(***************************************************************************)

NoUse == [op |-> "none", name |-> "", fault |-> FALSE, got |-> {}]

\* The package can be reached by a caller: its import has returned.
Usable == registered /\ pc = "done"

\* A use reads the package and changes nothing in it, so one use is recorded
\* per state of the package: the next is recorded after an edit or a reload.
Unread == lastUse.op = "none"

\* Names a caller may ask the package for.
AskNames == Declared \cup {PublicExtra, PrivateExtra} \cup Modules

\* hcipy.plotting.n: the object bound under n, or AttributeError.
CallerGetAttr(n) ==
    /\ Usable
    /\ Unread
    /\ lastUse' = [op    |-> "getattr",
                   name  |-> n,
                   fault |-> n \notin DOMAIN ns,
                   got   |-> IF n \in DOMAIN ns THEN {<<n, ns[n]>>} ELSE {}]
    /\ UNCHANGED <<sib, pc, allList, ns, loaded, registered, faulted, importLog,
                   partialView, runs, edits, builtList, firstNs>>

\* from hcipy.plotting import *: the names of __all__, or AttributeError when
\* one of them is not bound in the package.
CallerStarImport ==
    /\ Usable
    /\ Unread
    /\ LET missing == {n \in Range(allList) : n \notin DOMAIN ns}
       IN  lastUse' = [op    |-> "star",
                       name  |-> "*",
                       fault |-> missing # {},
                       got   |-> IF missing = {}
                                 THEN {<<n, ns[n]>> : n \in Range(allList)}
                                 ELSE {}]
    /\ UNCHANGED <<sib, pc, allList, ns, loaded, registered, faulted, importLog,
                   partialView, runs, edits, builtList, firstNs>>

\* A caller changes the list: __all__ becomes newList.
CallerEdit(newList) ==
    /\ Usable
    /\ edits < MaxEdits
    /\ allList' = newList
    /\ edits' = edits + 1
    /\ lastUse' = NoUse
    /\ UNCHANGED <<sib, pc, ns, loaded, registered, faulted, importLog,
                   partialView, runs, builtList, firstNs>>

\* hcipy.plotting.__all__.append('ghost')
CallerAppend == CallerEdit(Append(allList, "ghost"))

\* hcipy.plotting.__all__.pop()
CallerPop == Len(allList) > 0 /\ CallerEdit(Front(allList))

\* hcipy.plotting.__all__ = ['GifWriter']
CallerRebind == CallerEdit(<<"GifWriter">>)

\* importlib.reload(hcipy.plotting): the body runs again in the same namespace.
Reload ==
    /\ Usable
    /\ runs < MaxReloads
    /\ pc' = "L1"
    /\ runs' = runs + 1
    /\ importLog' = <<>>
    /\ lastUse' = NoUse
    /\ UNCHANGED <<sib, allList, ns, loaded, registered, faulted, partialView,
                   edits, builtList, firstNs>>

\* import hcipy.plotting after a failed import: a new module object, entered
\* in sys.modules, runs the body from the start; the siblings already in
\* sys.modules are not executed again.
Reimport ==
    /\ pc = "failed"
    /\ runs < MaxReloads
    /\ pc' = "L1"
    /\ runs' = runs + 1
    /\ registered' = TRUE
    /\ faulted' = FALSE
    /\ ns' = <<>>
    /\ allList' = <<>>
    /\ edits' = 0
    /\ importLog' = <<>>
    /\ lastUse' = NoUse
    /\ UNCHANGED <<sib, loaded, partialView, builtList, firstNs>>

(***************************************************************************)
(* Specification                                                           *)
(***************************************************************************)

Init ==
    /\ \E shape \in [Modules -> Shapes] :
          sib = [m \in Modules |-> Contents(m, shape[m])]
    /\ pc = "L1"
    /\ allList = <<>>
    /\ ns = <<>>
    /\ loaded = [m \in Modules |-> FALSE]
    /\ registered = TRUE
    /\ faulted = FALSE
    /\ importLog = <<>>
    /\ partialView = [m \in Modules |-> NoView]
    /\ runs = 0
    /\ edits = 0
    /\ builtList = <<>>
    /\ firstNs = <<>>
    /\ lastUse = NoUse

Next ==
    \/ L1
    \/ L2
    \/ L3
    \/ L4
    \/ L5
    \/ L7
    \/ L8
    \/ L9
    \/ L10
    \/ L11
    \/ \E n \in AskNames : CallerGetAttr(n)
    \/ CallerStarImport
    \/ CallerAppend
    \/ CallerPop
    \/ CallerRebind
    \/ Reload
    \/ Reimport

Spec == Init /\ [][Next]_vars

(***************************************************************************)
(* Properties                                                              *)
(***************************************************************************)

\* The names sibling m offers to a star-import, read off its contents: the
\* names it defines that its __all__ lists, or, without an __all__, that do
\* not start with an underscore.
ExportedBy(m) ==
    {n \in Range(Mod(m).defs) :
        IF Mod(m).hasAll THEN n \in Range(Mod(m).all) ELSE IsPublic(n)}

\* The siblings' exports as one table, module -> set of names.
RECURSIVE ExportsUpTo(_)
ExportsUpTo(i) ==
    IF i = 0 THEN <<>>
    ELSE (ModSeq[i] :> ExportedBy(ModSeq[i])) @@ ExportsUpTo(i - 1)

Exports == ExportsUpTo(Len(ModSeq))

AllExported == UNION {ExportedBy(m) : m \in Modules}

\* The __all__ of sibling m lists a name m does not define.
BadAll(m) ==
    Mod(m).hasAll /\ \E n \in Range(Mod(m).all) : n \notin Range(Mod(m).defs)

\* The sibling imported last among those that export n, by the table ex.
LastExporter(ex, n) ==
    LET k == CHOOSE i \in 1..Len(ModSeq) :
                 /\ n \in ex[ModSeq[i]]
                 /\ \A j \in (i + 1)..Len(ModSeq) : n \notin ex[ModSeq[j]]
    IN  ModSeq[k]

\* The export list as section 8 of the specification gives it.
ExpectedList ==
    <<"GifWriter", "FFMpegWriter", "set_color_scheme", "plot_kde_density_1d",
      "plot_kde_density_2d", "plot_rug", "plot_density_scatter", "errorfill",
      "imshow_field", "contour_field", "contourf_field">>

ImportLines == {"L7", "L8", "L9", "L10", "L11"}

\* C1 (as claimed): whenever a sibling does not define a name that the export
\* list declares for it, initialization of the package does not complete.
C1_MissingNameFailsAtLoad ==
    (\E n \in Declared : n \notin Range(Mod(Owner(n)).defs)) => pc # "done"

\* C1 (amended): initialization fails at load time exactly when some sibling's
\* own __all__ lists a name the sibling does not define; otherwise it
\* completes, and a name no sibling exports faults only when a caller uses it:
\* an attribute access or a star-import of the package raises AttributeError
\* exactly when the name asked for is not bound by any sibling.
C1_FaultOnlyFromSiblingAll ==
    LET offered == AllExported \cup Modules
    IN  /\ pc = "done" => \A m \in Modules : ~BadAll(m)
        /\ pc = "failed" => \E m \in Modules : BadAll(m)
        /\ lastUse.op = "getattr" =>
              (lastUse.fault <=> lastUse.name \notin offered)
        /\ lastUse.op = "star" =>
              (lastUse.fault <=> \E n \in Range(allList) : n \notin offered)

\* C1 witness: error_bars defines no errorfill, initialization completed, and
\* the fault appeared when the caller asked for errorfill.
C1_Witness ==
    /\ pc = "done"
    /\ "errorfill" \notin Range(Mod("error_bars").defs)
    /\ lastUse.op = "getattr" /\ lastUse.name = "errorfill" /\ lastUse.fault

\* C2 (as claimed): after initialization every declared name is bound in the
\* package, to an object of exactly one sibling.
C2_EveryDeclaredNameResolves ==
    pc = "done" =>
        \A n \in Declared :
            /\ n \in DOMAIN ns
            /\ Cardinality({m \in Modules : ns[n] = Obj(m, n)}) = 1

\* C2 (amended): after initialization every declared name that at least one
\* sibling exports is bound in the package, to the object of exactly one
\* sibling that exports it.
C2_ExportedDeclaredNamesResolve ==
    pc = "done" =>
        LET ex == Exports
        IN  \A n \in Declared :
                (\E m \in Modules : n \in ex[m]) =>
                    /\ n \in DOMAIN ns
                    /\ Cardinality({m \in Modules :
                                       n \in ex[m] /\ ns[n] = Obj(m, n)}) = 1

\* C2 witness: initialization completed with errorfill unbound and the names
\* of the other siblings bound.
C2_Witness ==
    /\ pc = "done"
    /\ "errorfill" \notin DOMAIN ns
    /\ "GifWriter" \in DOMAIN ns /\ "contourf_field" \in DOMAIN ns

\* C3: once a star-import has raised, the package is out of sys.modules and
\* no caller can reach it or has obtained anything from it, although names
\* copied before the fault stay bound in the abandoned module object.
C3_NoAccessAfterFault ==
    faulted => (~registered /\ ~Usable /\ lastUse = NoUse)

\* C3 witness: the import failed with GifWriter and set_color_scheme bound.
C3_Witness ==
    /\ faulted
    /\ pc = "failed"
    /\ "GifWriter" \in DOMAIN ns /\ "set_color_scheme" \in DOMAIN ns

C5_OwnerIdentity ==
    pc = "done" =>
        \A n \in Declared : n \in DOMAIN ns /\ ns[n] = Obj(Owner(n), n)

\* C5 (amended): after initialization every declared name that its owning
\* sibling exports, and that no sibling imported after the owner exports, is
\* bound to the very object the owner holds under that name.
C5_OwnerIdentityUnlessShadowed ==
    pc = "done" =>
        LET ex == Exports
        IN  \A i \in 1..Len(ModSeq) : \A n \in Range(Own(ModSeq[i])) :
                ( /\ n \in ex[ModSeq[i]]
                  /\ \A j \in (i + 1)..Len(ModSeq) : n \notin ex[ModSeq[j]] )
                => (n \in DOMAIN ns /\ ns[n] = Obj(ModSeq[i], n))

\* C5 witness: animation exports imshow_field too, and after initialization
\* the package holds the object of field, which owns the name.
C5_Witness ==
    /\ pc = "done"
    /\ "imshow_field" \in ExportedBy("animation")
    /\ "imshow_field" \in DOMAIN ns
    /\ ns["imshow_field"] = Obj("field", "imshow_field")

\* C6 (as claimed): after initialization the star-imports have bound no name
\* besides the 11 declared ones (the submodule attributes set aside).
C6_OnlyDeclaredNamesBound ==
    pc = "done" => (DOMAIN ns \ Modules) \subseteq Declared

\* C6 (amended): after initialization the names bound in the package are
\* exactly the names the siblings export to a star-import, together with the
\* five submodule names.
C6_BoundNamesAreSiblingExports ==
    pc = "done" => DOMAIN ns = AllExported \cup Modules

\* C6 witness: a sibling's additional public name is bound in the package,
\* its private name is not.
C6_Witness ==
    /\ pc = "done"
    /\ PublicExtra \in DOMAIN ns
    /\ PrivateExtra \notin DOMAIN ns

\* C7 (as claimed): after initialization __all__ stays the list that
\* initialization built.
C7_ExportListImmutable ==
    pc = "done" => allList = builtList

\* C7 (amended): after initialization __all__ stays the list initialization
\* built as long as no caller edits it: attribute reads, star-imports of the
\* package and re-executions of the body leave it as built.
C7_ExportListStableUnlessEdited ==
    (pc = "done" /\ edits = 0) => allList = builtList

\* C7 witness: the body has run again, a caller has star-imported the
\* package, nobody has edited the list.
C7_Witness ==
    pc = "done" /\ edits = 0 /\ runs > 0 /\ lastUse.op = "star"

\* C8: when a re-execution of the body completes, __all__ again holds the 11
\* names once each in the declared order, and the namespace is the one the
\* first initialization left.
C8_ReinitIdempotent ==
    (pc = "done" /\ runs > 0 /\ edits = 0) =>
        /\ allList = ExpectedList
        /\ Len(allList) = Cardinality(Declared)
        /\ ns = firstNs

\* C8 witness: the body has been re-executed as often as the model allows and has completed.
C8_Witness ==
    pc = "done" /\ runs = MaxReloads /\ edits = 0 /\ Len(importLog) = Len(ModSeq)

\* C9 (as claimed): no sibling body, referring back to the package while it
\* is being imported, sees some but not all of the declared names bound.
C9_NoPartialStateObserved ==
    \A m \in Modules :
        partialView[m].seen =>
            LET b == partialView[m].bound \cap Declared
            IN  b = {} \/ b = Declared

\* C9 (amended): a caller uses the package only after all five star-imports
\* have run, in order, with every name a sibling exports bound.
C9_CallersSeeCompletedImport ==
    lastUse.op # "none" =>
        /\ importLog = ModSeq
        /\ AllExported \subseteq DOMAIN ns

\* C9 witness: a caller has read the package, and the body of density had
\* seen it with GifWriter bound and imshow_field not yet bound.
C9_Witness ==
    /\ lastUse.op = "getattr"
    /\ partialView["density"].seen
    /\ partialView["density"].declared = ExpectedList
    /\ "GifWriter" \in partialView["density"].bound
    /\ "imshow_field" \notin partialView["density"].bound

\* C10: the star-imports run in the order animation, color_scheme, density,
\* error_bars, field, each with __all__ already complete; after
\* initialization every name a sibling exports is bound to the object of the
\* sibling imported last among those exporting it, and no fault was raised.
C10_ImportOrderLastWins ==
    /\ Len(importLog) <= Len(ModSeq)
    /\ \A i \in 1..Len(importLog) : importLog[i] = ModSeq[i]
    /\ pc \in ImportLines => Range(allList) = Declared
    /\ pc = "done" =>
          LET ex == Exports
          IN  /\ ~faulted
              /\ \A m \in Modules : \A n \in ex[m] :
                    n \in DOMAIN ns /\ ns[n] = Obj(LastExporter(ex, n), n)

\* C10 witness: animation and color_scheme both export GifWriter, and after
\* initialization the package holds the object of color_scheme.
C10_Witness ==
    /\ pc = "done"
    /\ "GifWriter" \in ExportedBy("animation")
    /\ "GifWriter" \in ExportedBy("color_scheme")
    /\ ns["GifWriter"] = Obj("color_scheme", "GifWriter")

====
